---- MODULE Spec2Model ----
(***************************************************************************)
(* Model of cpp/scripts/verify_submodules.py: the submodule policy         *)
(* verifier.  Strings are sequences of tokens; the markers, the paths and  *)
(* the commit hashes are atomic tokens, whitespace and the double quote    *)
(* are tokens of their own, so that strip(), startswith(), split(':', 1)   *)
(* and the status regular expression are computed, not assumed.            *)
(***************************************************************************)
EXTENDS Integers, Sequences, FiniteSets, TLC

(* ---------------------------------------------------------------------- *)
(* Bounds of the model                                                     *)
(* ---------------------------------------------------------------------- *)
NumShas == 2
MaxExtraSections == 1
MaxLines == 4

(* ---------------------------------------------------------------------- *)
(* Tokens and program constants                                            *)
(* ---------------------------------------------------------------------- *)
WS == " "
QUOTE == "\""
PATH_MARKER == "path:"
PIN_MARKER == "pinned_commit:"
PIN_REQUIRED == <<"<PIN_REQUIRED>">>

P_GOOGLETEST == <<"cpp/third_party/googletest">>
P_LIBTORCH == <<"cpp/third_party/libtorch-dist">>
P_SQLITE == <<"cpp/third_party/sqlite">>
P_USEARCH == <<"cpp/third_party/usearch">>

REQUIRED_PATHS == {P_USEARCH, P_SQLITE, P_GOOGLETEST, P_LIBTORCH}

\* sorted(REQUIRED_PATHS): the order in which the loops visit the paths
SortedRequired == <<P_GOOGLETEST, P_LIBTORCH, P_SQLITE, P_USEARCH>>

\* a path that is not required; its text contains a required path
P_OTHER == <<"cpp/third_party/sqlite3">>

\* pairs <<t, u>> of distinct tokens where u is a substring of t
TokenSubstrings == {<<P_OTHER[1], P_SQLITE[1]>>}

ShaNames == <<"a1a1a1", "b2b2b2", "c3c3c3", "d4d4d4">>
Shas == {ShaNames[i] : i \in 1..NumShas}
\* a token of hexadecimal digits that is shorter than 40 characters
SHORT_SHA == "abc1234"

(* ---------------------------------------------------------------------- *)
(* String helpers                                                          *)
(* ---------------------------------------------------------------------- *)
RECURSIVE LStripTok(_, _)
LStripTok(s, c) ==
    IF s # <<>> /\ Head(s) = c THEN LStripTok(Tail(s), c) ELSE s

RECURSIVE RStripTok(_, _)
RStripTok(s, c) ==
    IF s # <<>> /\ s[Len(s)] = c THEN RStripTok(SubSeq(s, 1, Len(s) - 1), c) ELSE s

\* str.strip(c)
StripTok(s, c) == RStripTok(LStripTok(s, c), c)

\* str.strip()
Strip(s) == StripTok(s, WS)

\* line.startswith(marker) for a marker token
StartsWith(line, marker) == line # <<>> /\ Head(line) = marker

\* line.split(':', 1)[1] of a line that starts with a marker token
AfterColon(line) == Tail(line)

\* u in t, for tokens
TokContains(t, u) == t = u \/ <<t, u>> \in TokenSubstrings

\* path in text, for a one-token path and a text given as its lines
Mentions(text, path) ==
    \E i \in 1..Len(text) : \E j \in 1..Len(text[i]) : TokContains(text[i][j], path[1])

(* ---------------------------------------------------------------------- *)
(* Dictionaries                                                            *)
(* ---------------------------------------------------------------------- *)
EmptyDict == [k \in {} |-> <<>>]

DictSet(d, k, v) == [x \in (DOMAIN d) \cup {k} |-> IF x = k THEN v ELSE d[x]]

DictValues(d) == {d[k] : k \in DOMAIN d}

(* ---------------------------------------------------------------------- *)
(* parse_lock_file                                                         *)
(* ---------------------------------------------------------------------- *)
\* current_path is <<>> for None and <<p>> for the path p
ParseInit == [pinned |-> EmptyDict, current_path |-> <<>>]

\* first pin wins instead of the last
LockLineStepFirstWins(st, raw_line) ==
    LET line == Strip(raw_line) IN
    IF StartsWith(line, PATH_MARKER)
    THEN [st EXCEPT !.current_path = <<Strip(AfterColon(line))>>]
    ELSE IF StartsWith(line, PIN_MARKER)
         THEN IF st.current_path = <<>>
              THEN st
              ELSE LET pinned == StripTok(Strip(AfterColon(line)), QUOTE) IN
                   IF st.current_path[1] \in DOMAIN st.pinned
                   THEN st
                   ELSE [st EXCEPT !.pinned = DictSet(st.pinned, st.current_path[1], pinned)]
         ELSE st

\* one iteration of the loop over the lines
LockLineStep(st, raw_line) ==
    LET line == Strip(raw_line) IN
    IF StartsWith(line, PATH_MARKER)
    THEN [st EXCEPT !.current_path = <<Strip(AfterColon(line))>>]
    ELSE IF StartsWith(line, PIN_MARKER)
         THEN IF st.current_path = <<>>
              THEN st
              ELSE LET pinned == StripTok(Strip(AfterColon(line)), QUOTE) IN
                   [st EXCEPT !.pinned = DictSet(st.pinned, st.current_path[1], pinned)]
         ELSE st

RECURSIVE ParseLines(_, _)
ParseLines(st, lines) ==
    IF lines = <<>> THEN st ELSE ParseLines(LockLineStep(st, Head(lines)), Tail(lines))

parse_lock_file(text) == ParseLines(ParseInit, text).pinned

(* ---------------------------------------------------------------------- *)
(* parse_submodule_status                                                  *)
(* ---------------------------------------------------------------------- *)
STATUS_PREFIXES == {"-", "+", "U", WS}

RECURSIVE NonSpaceRun(_)
\* the longest prefix without whitespace: [^\s]+
NonSpaceRun(s) ==
    IF s = <<>> \/ Head(s) = WS THEN <<>> ELSE <<Head(s)>> \o NonSpaceRun(Tail(s))

\* re.match(r'^[\-\+U ]?([0-9a-f]{40})\s+([^\s]+)', line): <<>> when there is
\* no match, else <<sha, path>>
StatusMatch(line) ==
    LET k == IF line # <<>> /\ Head(line) \in STATUS_PREFIXES THEN 2 ELSE 1 IN
    IF Len(line) < k + 2 \/ line[k] \notin Shas \/ line[k + 1] # WS
    THEN <<>>
    ELSE LET path == NonSpaceRun(LStripTok(SubSeq(line, k + 1, Len(line)), WS)) IN
         IF path = <<>> THEN <<>> ELSE << <<line[k]>>, path >>

\* one iteration of the loop over result.stdout.splitlines()
StatusLineStep(status, raw_line) ==
    LET line == Strip(raw_line) IN
    IF line = <<>>
    THEN status
    ELSE LET match == StatusMatch(line) IN
         IF match = <<>> THEN status ELSE DictSet(status, match[2], match[1])

RECURSIVE StatusLines(_, _)
StatusLines(status, lines) ==
    IF lines = <<>> THEN status
    ELSE StatusLines(StatusLineStep(status, Head(lines)), Tail(lines))

\* stdout of 'git submodule status --recursive', given as its lines
parse_submodule_status(stdout) == StatusLines(EmptyDict, stdout)

(* ---------------------------------------------------------------------- *)
(* Messages                                                                *)
(* ---------------------------------------------------------------------- *)
Msg(kind, args) == [kind |-> kind, args |-> args]

E_NO_GITMODULES == Msg("gitmodules_missing", <<>>)
E_NO_LOCK == Msg("lock_missing", <<>>)
W_PLACEHOLDER == Msg("placeholders", <<>>)
W_NO_GITLINKS == Msg("no_gitlinks", <<>>)

(* ---------------------------------------------------------------------- *)
(* The stages of the pipeline, as functions of what they read              *)
(* ---------------------------------------------------------------------- *)
SUBMODULE_PREFIX == "submodule "

RECURSIVE ScanSectionsNoUrl(_, _)
\* a section without url is accepted
ScanSectionsNoUrl(sections, paths) ==
    IF sections = <<>> THEN << <<>>, paths >>
    ELSE LET section == Head(sections)
             path == Strip(section.path) IN
         IF ~StartsWith(section.name, SUBMODULE_PREFIX)
         THEN ScanSectionsNoUrl(Tail(sections), paths)
         ELSE IF path = <<>>
              THEN << <<Msg("section_missing_path", <<section.name>>)>>, paths >>
              ELSE ScanSectionsNoUrl(Tail(sections), paths \cup {path})

RECURSIVE ScanSections(_, _)
\* the loop over parser.sections(): <<errors, paths>>, errors has at most
\* the message of the first section without a path or a url
ScanSections(sections, paths) ==
    IF sections = <<>> THEN << <<>>, paths >>
    ELSE LET section == Head(sections)
             path == Strip(section.path)
             url == Strip(section.url) IN
         IF ~StartsWith(section.name, SUBMODULE_PREFIX)
         THEN ScanSections(Tail(sections), paths)
         ELSE IF path = <<>>
              THEN << <<Msg("section_missing_path", <<section.name>>)>>, paths >>
              ELSE IF url = <<>>
                   THEN << <<Msg("section_missing_url", <<section.name>>)>>, paths >>
                   ELSE ScanSections(Tail(sections), paths \cup {path})

\* sorted(s) for a set of required paths
SortedOf(s) == SelectSeq(SortedRequired, LAMBDA p : p \in s)

\* only the first missing path is reported
MissingErrorsFirstOnly(paths) ==
    LET missing == REQUIRED_PATHS \ paths IN
    IF missing # {} THEN <<Msg("missing_required", <<SortedOf(missing)[1]>>)>> ELSE <<>>

\* missing = REQUIRED_PATHS - paths
MissingErrors(paths) ==
    LET missing == REQUIRED_PATHS \ paths IN
    IF missing # {} THEN <<Msg("missing_required", SortedOf(missing))>> ELSE <<>>

\* for path in sorted(REQUIRED_PATHS): if path not in lock_text: fail
MentionErrors(text) ==
    LET absent == SelectSeq(SortedRequired, LAMBDA p : ~Mentions(text, p)) IN
    IF absent # <<>> THEN <<Msg("lock_not_mentioned", <<absent[1]>>)>> ELSE <<>>

\* the pin check is skipped
PinErrorsNone(pinned) == <<>>

\* for path in sorted(REQUIRED_PATHS): if path not in pinned_by_path: fail
PinErrors(pinned) ==
    LET absent == SelectSeq(SortedRequired, LAMBDA p : p \notin DOMAIN pinned) IN
    IF absent # <<>> THEN <<Msg("lock_missing_pin", <<absent[1]>>)>> ELSE <<>>

\* if any(v == '<PIN_REQUIRED>' for v in pinned_by_path.values()): warn
PlaceholderWarnings(pinned) ==
    IF \E k \in DOMAIN pinned : pinned[k] = PIN_REQUIRED THEN <<W_PLACEHOLDER>> ELSE <<>>

\* pinned_by_path.get(path, '<PIN_REQUIRED>')
PinOf(pinned, path) == IF path \in DOMAIN pinned THEN pinned[path] ELSE PIN_REQUIRED

\* no pin is ever found to differ
IsMismatchNever(pinned, status, path) == FALSE

\* the placeholder is compared like a commit
IsMismatchNoSentinel(pinned, status, path) ==
    PinOf(pinned, path) # status[path]

\* pinned != '<PIN_REQUIRED>' and pinned != status[path]
IsMismatch(pinned, status, path) ==
    PinOf(pinned, path) # PIN_REQUIRED /\ PinOf(pinned, path) # status[path]

RECURSIVE CompareLoop(_, _, _, _)
\* the loop over sorted(REQUIRED_PATHS) of the else branch: <<errors, warnings>>
CompareLoop(todo, pinned, status, warns) ==
    IF todo = <<>> THEN << <<>>, warns >>
    ELSE LET path == Head(todo) IN
         IF path \notin DOMAIN status
         THEN CompareLoop(Tail(todo), pinned, status,
                          Append(warns, Msg("not_initialized", <<path>>)))
         ELSE IF IsMismatch(pinned, status, path)
              THEN << <<Msg("mismatch", <<path, PinOf(pinned, path), status[path]>>)>>, warns >>
              ELSE CompareLoop(Tail(todo), pinned, status, warns)

\* the loop visits every pinned path, required or not
StatusCheckAllPinned(pinned, status) ==
    IF status = EmptyDict
    THEN << <<>>, <<W_NO_GITLINKS>> >>
    ELSE LET r == CompareLoop(SortedRequired, pinned, status, <<>>) IN
         IF r[1] = <<>> /\ P_OTHER \in DOMAIN pinned /\ P_OTHER \in DOMAIN status
            /\ IsMismatch(pinned, status, P_OTHER)
         THEN << <<Msg("mismatch", <<P_OTHER, pinned[P_OTHER], status[P_OTHER]>>)>>, r[2] >>
         ELSE r

\* an empty status gives no warning
StatusCheckNoWarn(pinned, status) ==
    IF status = EmptyDict
    THEN << <<>>, <<>> >>
    ELSE CompareLoop(SortedRequired, pinned, status, <<>>)

\* the comparison is made also when the status is empty
StatusCheckNoSkip(pinned, status) ==
    IF status = EmptyDict
    THEN << <<>>, <<W_NO_GITLINKS>> \o CompareLoop(SortedRequired, pinned, status, <<>>)[2] >>
    ELSE CompareLoop(SortedRequired, pinned, status, <<>>)

\* if not status: warn ... else: the loop.  <<errors, warnings>>
StatusCheck(pinned, status) ==
    IF status = EmptyDict
    THEN << <<>>, <<W_NO_GITLINKS>> >>
    ELSE CompareLoop(SortedRequired, pinned, status, <<>>)

(* ---------------------------------------------------------------------- *)
(* The inputs: the two files and the output of git                         *)
(* ---------------------------------------------------------------------- *)
URL == <<"https://example.org/repo.git">>

Section(name, path, url) == [name |-> name, path |-> path, url |-> url]

SubmoduleSection(p) == Section(<<SUBMODULE_PREFIX, QUOTE, p[1], QUOTE>>, p, URL)

ExtraSections ==
    { SubmoduleSection(P_OTHER),
      Section(<<SUBMODULE_PREFIX, QUOTE, "nourl", QUOTE>>, P_OTHER, <<>>),
      Section(<<SUBMODULE_PREFIX, QUOTE, "nopath", QUOTE>>, <<>>, URL),
      Section(<<SUBMODULE_PREFIX, QUOTE, "empty", QUOTE>>, <<>>, <<>>),
      Section(<<"core">>, <<>>, <<>>) }

SeqsUpTo(S, n) == UNION {[1..k -> S] : k \in 0..n}

RequiredSections(D) ==
    LET ps == SortedOf(D) IN [i \in 1..Len(ps) |-> SubmoduleSection(ps[i])]

FullManifest == RequiredSections(REQUIRED_PATHS)

PathLine(p) == <<WS, WS, PATH_MARKER, WS, p[1]>>
PinLine(v) == <<WS, WS, PIN_MARKER, WS, QUOTE, v, QUOTE, WS>>
BarePinLine(v) == <<PIN_MARKER, v>>

LockBlock(p, kind) ==
    CASE kind = "absent" -> <<>>
      [] kind = "comment" -> << <<"#", WS, p[1]>> >>
      [] kind = "dash" -> << <<"-", WS, PATH_MARKER, WS, p[1]>>, PinLine(ShaNames[2]) >>
      [] kind = "nopin" -> << PathLine(p) >>
      [] kind = "sha" -> << PathLine(p), <<"url:", WS, URL[1]>>, PinLine(ShaNames[1]) >>
      [] kind = "placeholder" -> << PathLine(p), PinLine(PIN_REQUIRED[1]) >>
      [] kind = "repinned" -> << PathLine(p), PinLine(PIN_REQUIRED[1]), BarePinLine(ShaNames[1]) >>

AllBlockKinds == {"absent", "comment", "dash", "nopin", "sha", "placeholder", "repinned"}
PinnedBlockKinds == {"sha", "placeholder"}

OtherLockBlocks ==
    { <<>>,
      << PathLine(P_OTHER), PinLine(ShaNames[2]) >>,
      << PathLine(P_OTHER), PinLine(PIN_REQUIRED[1]) >> }

LockTextOf(f, other) ==
    LockBlock(SortedRequired[1], f[1]) \o LockBlock(SortedRequired[2], f[2])
    \o LockBlock(SortedRequired[3], f[3]) \o LockBlock(SortedRequired[4], f[4]) \o other

CanonicalLock == LockTextOf([i \in 1..4 |-> "sha"], <<>>)

StatusBlock(p, sha) ==
    IF sha = "" THEN <<>> ELSE << <<WS, sha, WS, p[1], WS, "(heads/main)">> >>

OtherStatusBlocks ==
    { <<>>,
      << <<"+", ShaNames[1], WS, P_OTHER[1], WS, "(v1)">> >>,
      << <<>>, <<"-", SHORT_SHA, WS, P_OTHER[1]>> >> }

StatusOutputOf(g, other) ==
    StatusBlock(SortedRequired[1], g[1]) \o StatusBlock(SortedRequired[2], g[2])
    \o StatusBlock(SortedRequired[3], g[3]) \o StatusBlock(SortedRequired[4], g[4]) \o other

CanonicalStatus == StatusOutputOf([i \in 1..4 |-> ShaNames[1]], <<>>)

(* ---------------------------------------------------------------------- *)
(* The state of a run                                                      *)
(* ---------------------------------------------------------------------- *)
VARIABLES gitmodules_exists, lock_exists, gitmodules, lock_file, git_stdout,
          pc, paths, lock_text, pinned_by_path, status,
          errors, warnings, ok_printed, exit_code, stages

files == <<gitmodules_exists, lock_exists, gitmodules, lock_file, git_stdout>>
data == <<paths, lock_text, pinned_by_path, status>>
vars == <<files, pc, data, errors, warnings, ok_printed, exit_code, stages>>

RUNNING == -1

Pipeline == <<"check_gitmodules", "check_lock", "read_manifest", "check_required",
              "check_mentions", "check_pins", "warn_placeholders", "query_status",
              "print_ok">>

Successor(p) ==
    LET i == CHOOSE j \in 1..Len(Pipeline) : Pipeline[j] = p IN
    IF i = Len(Pipeline) THEN "done" ELSE Pipeline[i + 1]

ProgramInit ==
    /\ pc = Pipeline[1]
    /\ paths = {}
    /\ lock_text = <<>>
    /\ pinned_by_path = EmptyDict
    /\ status = EmptyDict
    /\ errors = <<>>
    /\ warnings = <<>>
    /\ ok_printed = FALSE
    /\ exit_code = RUNNING
    /\ stages = <<>>

Files(ge, le, m, l, s) ==
    /\ gitmodules_exists = ge
    /\ lock_exists = le
    /\ gitmodules = m
    /\ lock_file = l
    /\ git_stdout = s

\* the inputs of a run; a file that does not exist has no content
InitFiles ==
    \/ \E extra \in SeqsUpTo(ExtraSections, MaxExtraSections), D \in SUBSET REQUIRED_PATHS :
          Files(TRUE, TRUE, extra \o RequiredSections(D), CanonicalLock, CanonicalStatus)
    \/ \E le \in BOOLEAN :
          Files(FALSE, le, <<>>, IF le THEN CanonicalLock ELSE <<>>, CanonicalStatus)
    \/ \E m \in {FullManifest, <<>>} :
          Files(TRUE, FALSE, m, <<>>, CanonicalStatus)
    \/ \E f \in [1..4 -> AllBlockKinds], other \in OtherLockBlocks,
          s \in {CanonicalStatus, <<>>} :
          Files(TRUE, TRUE, FullManifest, LockTextOf(f, other), s)
    \/ \E f \in [1..4 -> PinnedBlockKinds], other \in OtherLockBlocks,
          g \in [1..4 -> Shas \cup {""}], sother \in OtherStatusBlocks :
          Files(TRUE, TRUE, FullManifest, LockTextOf(f, other), StatusOutputOf(g, sother))

Init == InitFiles /\ ProgramInit

\* the message is printed but the process goes on
FailNoExit(msg) ==
    /\ errors' = Append(errors, msg)
    /\ exit_code' = exit_code
    /\ pc' = Successor(pc)

\* fail(msg): print the ERROR line, sys.exit(1)
Fail(msg) ==
    /\ errors' = Append(errors, msg)
    /\ exit_code' = 1
    /\ pc' = "done"

\* warn(msg) for each message of ws
Warn(ws) == warnings' = warnings \o ws

\* a stage that calls fail with the first of errs, or goes on
FailOrGoOn(errs) ==
    IF errs # <<>>
    THEN Fail(errs[1])
    ELSE /\ pc' = Successor(pc)
         /\ UNCHANGED <<errors, exit_code>>

Enter(stage) ==
    /\ pc = stage
    /\ stages' = Append(stages, stage)
    /\ UNCHANGED files

CheckGitmodulesExists ==
    /\ Enter("check_gitmodules")
    /\ FailOrGoOn(IF gitmodules_exists THEN <<>> ELSE <<E_NO_GITMODULES>>)
    /\ UNCHANGED <<data, warnings, ok_printed>>

CheckLockExists ==
    /\ Enter("check_lock")
    /\ FailOrGoOn(IF lock_exists THEN <<>> ELSE <<E_NO_LOCK>>)
    /\ UNCHANGED <<data, warnings, ok_printed>>

ReadManifest ==
    /\ Enter("read_manifest")
    /\ LET r == ScanSections(gitmodules, {}) IN
         /\ paths' = r[2]
         /\ FailOrGoOn(r[1])
    /\ UNCHANGED <<lock_text, pinned_by_path, status, warnings, ok_printed>>

CheckRequired ==
    /\ Enter("check_required")
    /\ FailOrGoOn(MissingErrors(paths))
    /\ UNCHANGED <<data, warnings, ok_printed>>

CheckMentions ==
    /\ Enter("check_mentions")
    /\ lock_text' = lock_file
    /\ FailOrGoOn(MentionErrors(lock_file))
    /\ UNCHANGED <<paths, pinned_by_path, status, warnings, ok_printed>>

CheckPins ==
    /\ Enter("check_pins")
    /\ pinned_by_path' = parse_lock_file(lock_text)
    /\ FailOrGoOn(PinErrors(parse_lock_file(lock_text)))
    /\ UNCHANGED <<paths, lock_text, status, warnings, ok_printed>>

WarnPlaceholders ==
    /\ Enter("warn_placeholders")
    /\ Warn(PlaceholderWarnings(pinned_by_path))
    /\ pc' = Successor(pc)
    /\ UNCHANGED <<data, errors, exit_code, ok_printed>>

QueryStatus ==
    /\ Enter("query_status")
    /\ LET st == parse_submodule_status(git_stdout)
           r == StatusCheck(pinned_by_path, st) IN
         /\ status' = st
         /\ Warn(r[2])
         /\ FailOrGoOn(r[1])
    /\ UNCHANGED <<paths, lock_text, pinned_by_path, ok_printed>>

PrintOK ==
    /\ Enter("print_ok")
    /\ ok_printed' = TRUE
    /\ exit_code' = 0
    /\ pc' = "done"
    /\ UNCHANGED <<data, errors, warnings>>

Next ==
    \/ CheckGitmodulesExists
    \/ CheckLockExists
    \/ ReadManifest
    \/ CheckRequired
    \/ CheckMentions
    \/ CheckPins
    \/ WarnPlaceholders
    \/ QueryStatus
    \/ PrintOK

Spec == Init /\ [][Next]_vars

(* ---------------------------------------------------------------------- *)
(* The verifier as a function of its inputs                                *)
(* ---------------------------------------------------------------------- *)
Outcome(code, errs, warns) == [exit_code |-> code, errors |-> errs, warnings |-> warns]

\* the module-level code from the first existence check to the OK line
Run(ge, le, m, l, s) ==
    IF ~ge THEN Outcome(1, <<E_NO_GITMODULES>>, <<>>)
    ELSE IF ~le THEN Outcome(1, <<E_NO_LOCK>>, <<>>)
    ELSE LET scan == ScanSections(m, {})
             missing == MissingErrors(scan[2])
             absent == MentionErrors(l)
             pinned == parse_lock_file(l)
             unpinned == PinErrors(pinned)
             r == StatusCheck(pinned, parse_submodule_status(s))
             warns == PlaceholderWarnings(pinned) \o r[2] IN
         IF scan[1] # <<>> THEN Outcome(1, <<scan[1][1]>>, <<>>)
         ELSE IF missing # <<>> THEN Outcome(1, <<missing[1]>>, <<>>)
         ELSE IF absent # <<>> THEN Outcome(1, <<absent[1]>>, <<>>)
         ELSE IF unpinned # <<>> THEN Outcome(1, <<unpinned[1]>>, <<>>)
         ELSE IF r[1] # <<>> THEN Outcome(1, <<r[1][1]>>, warns)
         ELSE Outcome(0, <<>>, warns)

(* ---------------------------------------------------------------------- *)
(* parse_lock_file on its own: every text of at most MaxLines lines        *)
(* ---------------------------------------------------------------------- *)
ParseLineShapes ==
    { PathLine(P_SQLITE),
      <<PATH_MARKER, P_OTHER[1], WS>>,
      <<PATH_MARKER, WS>>,
      PinLine(ShaNames[1]),
      PinLine(PIN_REQUIRED[1]),
      BarePinLine(ShaNames[2]),
      <<PIN_MARKER, WS, QUOTE, QUOTE, WS, ShaNames[1], QUOTE>>,
      <<>>,
      <<"-", WS, PATH_MARKER, WS, P_SQLITE[1]>>,
      <<"#", WS, PIN_MARKER, WS, ShaNames[2]>> }

InitParse ==
    /\ \E text \in SeqsUpTo(ParseLineShapes, MaxLines) :
          Files(TRUE, TRUE, <<>>, text, <<>>)
    /\ ProgramInit

ParseLockFile ==
    /\ pc = Pipeline[1]
    /\ lock_text' = lock_file
    /\ pinned_by_path' = parse_lock_file(lock_file)
    /\ pc' = "parsed"
    /\ stages' = Append(stages, "parse_lock_file")
    /\ UNCHANGED <<files, paths, status, errors, warnings, ok_printed, exit_code>>

NextParse == ParseLockFile

SpecParse == InitParse /\ [][NextParse]_vars

(* ---------------------------------------------------------------------- *)
(* Properties                                                              *)
(* ---------------------------------------------------------------------- *)
SetMax(S) == CHOOSE x \in S : \A y \in S : y <= x
SetMin(S) == CHOOSE x \in S : \A y \in S : x <= y
Range(q) == {q[i] : i \in 1..Len(q)}

\* the mapping the lock format defines: every pin line that has a path line
\* before it gives its value to the path of the closest one, the last pin
\* line of a path decides
ExpectedPins(text) ==
    LET n == Len(text)
        line == [i \in 1..n |-> Strip(text[i])]
        pathLines == {i \in 1..n : StartsWith(line[i], PATH_MARKER)}
        pinLines == {i \in 1..n : StartsWith(line[i], PIN_MARKER)}
        assigning == {i \in pinLines : \E j \in pathLines : j < i}
        context == [i \in assigning |->
                      Strip(Tail(line[SetMax({j \in pathLines : j < i})]))]
    IN  [k \in {context[i] : i \in assigning} |->
            StripTok(Strip(Tail(line[SetMax({i \in assigning : context[i] = k})])), QUOTE)]

\* C9: parse_lock_file returns the mapping in which every pinned_commit line
\* assigns its stripped, unquoted value to the path of the most recent path
\* line before it; a pin line before any path line and the other lines change
\* nothing, the last pin of a path wins, a path without pin has no entry.
C9_ParseLockFile ==
    pc = "parsed" => pinned_by_path = ExpectedPins(lock_file)

\* a parsed text where a path got two different pins, the second of which is
\* kept, and another path got none
C9_Witness ==
    /\ pc = "parsed"
    /\ Len(lock_file) >= 4
    /\ StartsWith(Strip(lock_file[1]), PATH_MARKER)
    /\ StartsWith(Strip(lock_file[2]), PATH_MARKER)
    /\ StartsWith(Strip(lock_file[3]), PIN_MARKER)
    /\ StartsWith(Strip(lock_file[4]), PIN_MARKER)
    /\ Tail(Strip(lock_file[3])) # Tail(Strip(lock_file[4]))
    /\ Strip(Tail(Strip(lock_file[1]))) # Strip(Tail(Strip(lock_file[2])))
    /\ DOMAIN pinned_by_path = {Strip(Tail(Strip(lock_file[2])))}
    /\ pinned_by_path[Strip(Tail(Strip(lock_file[2])))]
         = StripTok(Strip(Tail(Strip(lock_file[4]))), QUOTE)

\* what the manifest declares, read off the sections
SubmoduleSections(m) == {i \in 1..Len(m) : m[i].name # <<>> /\ m[i].name[1] = SUBMODULE_PREFIX}
SectionsValid(m) ==
    \A i \in SubmoduleSections(m) : Strip(m[i].path) # <<>> /\ Strip(m[i].url) # <<>>
DeclaredPaths(m) == {Strip(m[i].path) : i \in SubmoduleSections(m)}

ManifestOK ==
    /\ gitmodules_exists /\ lock_exists
    /\ SectionsValid(gitmodules)
    /\ REQUIRED_PATHS \subseteq DeclaredPaths(gitmodules)

Done == pc = "done"

HasWarning(kind) == \E i \in 1..Len(warnings) : warnings[i].kind = kind
WarnedPaths ==
    {warnings[i].args[1] : i \in {j \in 1..Len(warnings) : warnings[j].kind = "not_initialized"}}

\* the messages of a run that are about the path p
About(p) ==
    {m \in Range(errors) \cup Range(warnings) : m.args # <<>> /\ m.args[1] = p}

\* C1: a manifest with valid sections that does not declare every required
\* path makes the run fail with exit code 1 and one error that names the
\* whole set REQUIRED_PATHS minus the declared paths.
C1_MissingDeclarations ==
    (Done /\ gitmodules_exists /\ lock_exists /\ SectionsValid(gitmodules)
          /\ ~(REQUIRED_PATHS \subseteq DeclaredPaths(gitmodules)))
    => /\ exit_code = 1
       /\ ~ok_printed
       /\ Len(errors) = 1
       /\ errors[1].kind = "missing_required"
       /\ Range(errors[1].args) = REQUIRED_PATHS \ DeclaredPaths(gitmodules)

\* a failed run whose manifest lacks more than one required path
C1_Witness ==
    /\ Done /\ exit_code = 1
    /\ SectionsValid(gitmodules)
    /\ Cardinality(REQUIRED_PATHS \ DeclaredPaths(gitmodules)) >= 2
    /\ DeclaredPaths(gitmodules) # {}
    /\ errors # <<>> /\ errors[1].kind = "missing_required"

\* C2: when the manifest checks passed and a required path has no pin entry
\* in the lock file, the run fails with exit code 1, its error names a
\* required path without entry, the status is never queried, OK not printed.
C2_MissingLockEntry ==
    (Done /\ ManifestOK)
    => LET pins == ExpectedPins(lock_file) IN
       ~(REQUIRED_PATHS \subseteq DOMAIN pins)
       => /\ exit_code = 1
          /\ Len(errors) = 1
          /\ errors[1].kind \in {"lock_not_mentioned", "lock_missing_pin"}
          /\ errors[1].args[1] \in REQUIRED_PATHS \ DOMAIN pins
          /\ "query_status" \notin Range(stages)
          /\ status = EmptyDict
          /\ ~ok_printed

\* a failed run whose lock file mentions every required path but pins not all
C2_Witness ==
    /\ Done /\ ManifestOK
    /\ \A p \in REQUIRED_PATHS : Mentions(lock_file, p)
    /\ errors # <<>> /\ errors[1].kind = "lock_missing_pin"

\* the required paths in the status whose pin is a commit other than the observed
Mismatching(pins, observed) ==
    {p \in REQUIRED_PATHS \cap DOMAIN observed :
        pins[p] # PIN_REQUIRED /\ pins[p] # observed[p]}

\* C3: with the static checks passed and a non-empty status, a required path
\* whose pin is a commit other than the observed one makes the run fail with
\* exit code 1 and a message with the pinned and the observed value (of the
\* first such path in sorted order, as one error ends the run); a path whose
\* pin equals the observed hash gets no error and no warning.
C3_PinComparison ==
    (Done /\ ManifestOK)
    => LET pins == ExpectedPins(lock_file)
           observed == parse_submodule_status(git_stdout)
           bad == Mismatching(pins, observed) IN
       (REQUIRED_PATHS \subseteq DOMAIN pins /\ observed # EmptyDict)
       => /\ bad # {} =>
               /\ exit_code = 1
               /\ Len(errors) = 1
               /\ errors[1].kind = "mismatch"
               /\ errors[1].args[1] = SortedOf(bad)[1]
               /\ errors[1].args[2] = pins[errors[1].args[1]]
               /\ errors[1].args[3] = observed[errors[1].args[1]]
          /\ bad = {} => exit_code = 0
          /\ \A p \in REQUIRED_PATHS \cap DOMAIN observed :
               pins[p] = observed[p] => About(p) = {}

\* a run that fails on one path while another path matches its pin
C3_Witness ==
    /\ Done /\ ManifestOK
    /\ errors # <<>> /\ errors[1].kind = "mismatch"
    /\ errors[1].args[2] # errors[1].args[3]
    /\ \E p \in REQUIRED_PATHS \cap DOMAIN status :
          pinned_by_path[p] = status[p] /\ About(p) = {}

\* C4: with the static checks passed, the placeholder warning is printed
\* exactly when some parsed pin is the placeholder; a run whose pins are all
\* the placeholder exits 0 whatever the status, and a failing run fails on a
\* pin that is not the placeholder.
C4_Placeholder ==
    (Done /\ ManifestOK)
    => LET pins == ExpectedPins(lock_file) IN
       REQUIRED_PATHS \subseteq DOMAIN pins
       => /\ (PIN_REQUIRED \in DictValues(pins)) <=> (W_PLACEHOLDER \in Range(warnings))
          /\ DictValues(pins) = {PIN_REQUIRED} => (exit_code = 0 /\ ok_printed)
          /\ exit_code = 1 =>
               /\ errors[1].kind = "mismatch"
               /\ errors[1].args[2] # PIN_REQUIRED

\* a run with only placeholder pins and an observed hash for every required path
C4_Witness ==
    /\ Done /\ ManifestOK
    /\ REQUIRED_PATHS \subseteq DOMAIN pinned_by_path
    /\ DictValues(pinned_by_path) = {PIN_REQUIRED}
    /\ REQUIRED_PATHS \subseteq DOMAIN status
    /\ exit_code = 0
    /\ W_PLACEHOLDER \in Range(warnings)

\* C5: with the static checks passed and an empty status result, the run
\* prints the not-initialized-yet warning, compares no pin and exits 0.
C5_EmptyStatus ==
    (/\ Done /\ ManifestOK
     /\ REQUIRED_PATHS \subseteq DOMAIN ExpectedPins(lock_file)
     /\ parse_submodule_status(git_stdout) = EmptyDict)
    => /\ W_NO_GITLINKS \in Range(warnings)
       /\ ~HasWarning("not_initialized")
       /\ errors = <<>>
       /\ exit_code = 0
       /\ ok_printed

\* a run with pinned commits and a git output without any usable line
C5_Witness ==
    /\ Done /\ ManifestOK
    /\ "query_status" \in Range(stages)
    /\ git_stdout # <<>> /\ status = EmptyDict
    /\ \E p \in REQUIRED_PATHS : pinned_by_path[p] # PIN_REQUIRED
    /\ W_NO_GITLINKS \in Range(warnings)
    /\ exit_code = 0

\* the stage in which each kind of error is raised
StageOfError(kind) ==
    CASE kind = "gitmodules_missing" -> "check_gitmodules"
      [] kind = "lock_missing" -> "check_lock"
      [] kind \in {"section_missing_path", "section_missing_url"} -> "read_manifest"
      [] kind = "missing_required" -> "check_required"
      [] kind = "lock_not_mentioned" -> "check_mentions"
      [] kind = "lock_missing_pin" -> "check_pins"
      [] kind = "mismatch" -> "query_status"

TaxonomyKinds ==
    {"gitmodules_missing", "lock_missing", "missing_required", "lock_not_mentioned",
     "lock_missing_pin", "mismatch"}

\* C6 as stated: a run ends with exit code 0 exactly when every required
\* path is declared, has a lock entry and, where checked out, equals its pin;
\* otherwise with exit code 1.
C6_AsStated ==
    Done =>
      LET pins == ExpectedPins(lock_file)
          observed == parse_submodule_status(git_stdout) IN
      /\ exit_code \in {0, 1}
      /\ exit_code = 0 <=>
            /\ REQUIRED_PATHS \subseteq DeclaredPaths(gitmodules)
            /\ REQUIRED_PATHS \subseteq DOMAIN pins
            /\ \A p \in REQUIRED_PATHS \cap DOMAIN observed : pins[p] = observed[p]

\* C6 (amended): a run ends with exit code 0 exactly when both files exist,
\* every submodule section has a path and a url, every required path is
\* declared and has a lock entry, and every checked-out required path whose
\* pin is not the placeholder equals its pin; otherwise with exit code 1, for
\* a violation of the taxonomy or a section without path or url.
C6_ExitCode ==
    Done =>
      LET pins == ExpectedPins(lock_file)
          observed == parse_submodule_status(git_stdout) IN
      /\ exit_code \in {0, 1}
      /\ exit_code = 0 <=>
            /\ gitmodules_exists /\ lock_exists
            /\ SectionsValid(gitmodules)
            /\ REQUIRED_PATHS \subseteq DeclaredPaths(gitmodules)
            /\ REQUIRED_PATHS \subseteq DOMAIN pins
            /\ \A p \in REQUIRED_PATHS \cap DOMAIN observed :
                  pins[p] = PIN_REQUIRED \/ pins[p] = observed[p]
      /\ exit_code = 1 =>
            /\ errors # <<>>
            /\ errors[1].kind \in
                 TaxonomyKinds \cup {"section_missing_path", "section_missing_url"}

\* a run that fails on a section without url although every required path
\* is declared, locked and checked out at its pin
C6_Witness ==
    /\ Done /\ exit_code = 1
    /\ ~SectionsValid(gitmodules)
    /\ REQUIRED_PATHS \subseteq DeclaredPaths(gitmodules)
    /\ LET pins == ExpectedPins(lock_file)
           observed == parse_submodule_status(git_stdout) IN
       /\ REQUIRED_PATHS \subseteq DOMAIN pins
       /\ \A p \in REQUIRED_PATHS : p \in DOMAIN observed /\ pins[p] = observed[p]
    /\ errors[1].kind = "section_missing_url"

\* the stages of the pipeline that come before the given one
Before(stage) ==
    LET i == CHOOSE j \in 1..Len(Pipeline) : Pipeline[j] = stage IN
    {Pipeline[j] : j \in 1..(i - 1)}

\* the fatal condition that each stage looks for, read off the inputs
FatalAt(stage) ==
    CASE stage = "check_gitmodules" -> ~gitmodules_exists
      [] stage = "check_lock" -> ~lock_exists
      [] stage = "read_manifest" -> ~SectionsValid(gitmodules)
      [] stage = "check_required" -> ~(REQUIRED_PATHS \subseteq DeclaredPaths(gitmodules))
      [] stage = "check_mentions" -> \E p \in REQUIRED_PATHS : ~Mentions(lock_file, p)
      [] stage = "check_pins" -> ~(REQUIRED_PATHS \subseteq DOMAIN ExpectedPins(lock_file))
      [] stage = "warn_placeholders" -> FALSE
      [] stage = "query_status" ->
            Mismatching(ExpectedPins(lock_file), parse_submodule_status(git_stdout)) # {}
      [] stage = "print_ok" -> FALSE

\* what C7 says of every state of a run
C7_State ==
    /\ Len(errors) <= 1
    /\ stages = SubSeq(Pipeline, 1, Len(stages))
    /\ errors # <<>> =>
          /\ Done /\ exit_code = 1 /\ ~ok_printed
          /\ StageOfError(errors[1].kind) = stages[Len(stages)]
          /\ FatalAt(stages[Len(stages)])
          /\ \A st \in Before(stages[Len(stages)]) : ~FatalAt(st)
    /\ exit_code = 1 => errors # <<>>
    /\ Done => (exit_code \in {0, 1} /\ (exit_code = 0 <=> ok_printed))
    /\ (Done /\ errors = <<>>) => (exit_code = 0 /\ \A i \in 1..Len(Pipeline) : ~FatalAt(Pipeline[i]))

\* C7: a run emits at most one ERROR line, the stage that emits it is the
\* first one in pipeline order with a fatal condition and the last one
\* executed, OK is never printed in a run with an ERROR, and warnings never
\* prevent exit code 0.
C7_FailFast == [](C7_State) /\ [][errors = <<>>]_vars

\* a run that printed warnings and then stopped on an error before the OK line
C7_Witness ==
    /\ Done /\ Len(errors) = 1 /\ warnings # <<>>
    /\ exit_code = 1 /\ ~ok_printed
    /\ "print_ok" \notin Range(stages)

LockBase(text) ==
    LET other == {i \in 1..Len(text) :
                    /\ StartsWith(Strip(text[i]), PATH_MARKER)
                    /\ Strip(Tail(Strip(text[i]))) \notin REQUIRED_PATHS} IN
    IF other = {} THEN text ELSE SubSeq(text, 1, SetMin(other) - 1)

\* the lines of the git output before the first one that is not about a required path
StatusBase(out) ==
    LET other == {i \in 1..Len(out) :
                    \/ StatusMatch(Strip(out[i])) = <<>>
                    \/ StatusMatch(Strip(out[i]))[2] \notin REQUIRED_PATHS} IN
    IF other = {} THEN out ELSE SubSeq(out, 1, SetMin(other) - 1)

Restrict(d) == [k \in (DOMAIN d) \cap REQUIRED_PATHS |-> d[k]]

\* C10: the exit code of a run equals the exit code of the verifier on every
\* input with the same manifest and the same pins and observed hashes of the
\* required paths, whatever the entries of other paths; a mismatch is only
\* ever reported for a required path.
C10_NonRequiredIrrelevant ==
    Done =>
      LET lbase == IF lock_exists THEN LockBase(lock_file) ELSE lock_file
          sbase == StatusBase(git_stdout)
          pins == Restrict(ExpectedPins(lock_file))
          observed == Restrict(parse_submodule_status(git_stdout)) IN
      /\ \A lo \in (IF lock_exists THEN OtherLockBlocks ELSE {<<>>}) :
            Restrict(ExpectedPins(lbase \o lo)) = pins
            => \A so \in OtherStatusBlocks :
                  Restrict(parse_submodule_status(sbase \o so)) = observed
                  => Run(gitmodules_exists, lock_exists, gitmodules,
                         lbase \o lo, sbase \o so).exit_code = exit_code
      /\ \A i \in 1..Len(errors) :
            errors[i].kind = "mismatch" => errors[i].args[1] \in REQUIRED_PATHS

\* a successful run although a path that is not required is checked out at
\* another commit than its pin
C10_Witness ==
    /\ Done /\ exit_code = 0
    /\ P_OTHER \in DOMAIN pinned_by_path /\ P_OTHER \in DOMAIN status
    /\ pinned_by_path[P_OTHER] # PIN_REQUIRED
    /\ pinned_by_path[P_OTHER] # status[P_OTHER]
    /\ \E p \in REQUIRED_PATHS : p \in DOMAIN status /\ pinned_by_path[p] = status[p]

====
